---- MODULE Spec2Model ----
(***************************************************************************)
(* Model of the visitor-data collection pipeline of the honeypot page:     *)
(* getVisitorIP, getGeoLocation, getVisitorInfo, saveToSupabase,           *)
(* collectVisitorData (src/src/lib/supabase.ts, REST revision, repeated in *)
(* src/src/App.tsx) and the App effect that hands the record to the Shell. *)
(*                                                                         *)
(*   Spec        the REST pipeline from view mount to the Shell's record   *)
(*   SpecTimers  Spec, with every armed timer of the pipeline firing       *)
(*   SpecNorm    the normalisation of one response body, over all inputs   *)
(*   SpecClient  the createClient revision: module load, then logVisitor   *)
(*   SpecDemo    the demo-mode revision of logVisitor                      *)
(*   SpecShell   the logVisitor-based App: collection and animation        *)
(*   SpecAnim    the progress animation of the second App, with unmount    *)
(*                                                                         *)
(* A definition introduced as a "faulty variant" is not the code: it is    *)
(* the code with one plausible slip, which the properties must tell apart. *)
(*                                                                         *)
(* JavaScript runs one task at a time: everything a function does between  *)
(* two awaits is one action here.  The network, the timers and the         *)
(* environment are the nondeterministic inputs.                            *)
(***************************************************************************)
EXTENDS Integers, Sequences, FiniteSets, TLC

VARIABLES
    pc,           \* where the pipeline is suspended (which await), or how it ended
    svc,          \* index into services of the endpoint getVisitorIP is trying
    timers,       \* armed setTimeout handles: the attempt each one would abort
    contacted,    \* network log: endpoints a GET was issued to, in order
    outcome,      \* the IP attempt that ended last: its endpoint and how it ended
    data,         \* getVisitorIP's local `data`: the last parsed response body
    ip,           \* the value getVisitorIP returned (Undefined until it returns)
    visitorInfo,  \* what getVisitorInfo returned inside the try block
    geoRequests,  \* network log: addresses the geo lookup was keyed by
    geoOutcome,   \* how the geo lookup ended
    geoInfo,      \* collectVisitorData's local geoInfo
    assembled,    \* collectVisitorData's local visitorData (the merged record)
    posted,       \* network log: records POSTed to the storage endpoint
    saveOutcome,  \* how saveToSupabase ended ("none" until it returns)
    result,       \* what collectVisitorData resolved with
    raised,       \* functions that threw/rejected to their caller
    visitorData,  \* Shell state (useState)
    ipCollected,  \* Shell state (useState)
    progress,     \* Shell state (useState), counted in units of 1/RandomGrain
    loading,      \* Shell state (useState)
    showFinalMessage,   \* Shell state (useState)
    animTimers,   \* armed timers of the progress animation effect
    mounted,      \* the view is mounted (its state exists and renders)
    sessionShown, \* what the Session ID line of the final screen shows
    SUPABASE_URL,       \* configuration, fixed at module load
    SUPABASE_ANON_KEY   \* configuration, fixed at module load

vars == <<pc, svc, timers, contacted, outcome, data, ip, visitorInfo, geoRequests,
          geoOutcome, geoInfo, assembled, posted, saveOutcome, result, raised, visitorData,
          ipCollected, sessionShown, SUPABASE_URL, SUPABASE_ANON_KEY, progress, loading,
                   showFinalMessage, animTimers, mounted>>

vars_but_pc == <<svc, timers, contacted, outcome, data, ip, visitorInfo, geoRequests,
                 geoOutcome, geoInfo, assembled, posted, saveOutcome, result, raised,
                 visitorData, ipCollected, sessionShown, SUPABASE_URL, SUPABASE_ANON_KEY, progress, loading,
                   showFinalMessage, animTimers, mounted>>

\* What the collection task reads and writes.
collection == <<pc, svc, timers, contacted, outcome, data, ip, visitorInfo, geoRequests,
                geoOutcome, geoInfo, assembled, posted, saveOutcome, result, raised,
                visitorData, ipCollected, SUPABASE_URL, SUPABASE_ANON_KEY>>

\* The effects of App have not run yet.
EffectsPending == pc \in {"load", "mount", "client_mount", "demo_mount"}

----------------------------------------------------------------------------
(* JavaScript values.  A string is a sequence of one-character strings.    *)

Undefined == [t |-> "undefined", s |-> <<>>, n |-> 0]
JNull == [t |-> "null", s |-> <<>>, n |-> 0]
Num(k) == [t |-> "number", s |-> <<>>, n |-> k]
Str(chars) == [t |-> "string", s |-> chars, n |-> 0]

\* JavaScript truthiness of a JSON value: "", 0, null and undefined are falsy.
Truthy(v) ==
    \/ v.t = "string" /\ v.s # <<>>
    \/ v.t = "number" /\ v.n # 0

\* a || b
Or(a, b) == IF Truthy(a) THEN a ELSE b

Digit == {"0", "1", "2", "3", "4", "5", "6", "7", "8", "9"}

----------------------------------------------------------------------------
(* getVisitorIP: the pure part (normalisation of one response body).       *)

\* const services = [...]: the fixed, ordered endpoint list.
services == <<"https://api.ipify.org?format=json", "https://ipapi.co/json/",
              "https://api.my-ip.io/ip.json", "https://httpbin.org/ip">>

\* The keys read from a response body, in the order of the || chain.
Keys == <<"ip", "query", "ipAddress", "origin">>

\* A parsed response body.  kind "throw": response.json() rejects (the body is
\* not JSON); "null": the body is the JSON null (reading data.ip throws a
\* TypeError); "prim": a JSON number, string or boolean (every property reads
\* undefined); "object": f maps each key to its value (Undefined when absent).
NoFields == [k \in {Keys[i] : i \in 1..Len(Keys)} |-> Undefined]
Unparseable == [kind |-> "throw", f |-> NoFields]
NullBody == [kind |-> "null", f |-> NoFields]
PrimBody == [kind |-> "prim", f |-> NoFields]
Obj(fields) == [kind |-> "object", f |-> fields]

\* data.ip || data.query || data.ipAddress || data.origin
Candidate(d) == Or(Or(Or(d.f["ip"], d.f["query"]), d.f["ipAddress"]), d.f["origin"])

\* String.prototype.split(sep)[0]: the text before the first separator.
RECURSIVE SplitFirst(_, _, _)
SplitFirst(s, sep, i) ==
    IF i > Len(s) THEN s
    ELSE IF s[i] = sep THEN SubSeq(s, 1, i - 1)
    ELSE SplitFirst(s, sep, i + 1)

\* Faulty variant: the value as received, port and all.
CleanIPUnstripped(s) == s

\* const cleanIP = ip.split(':')[0]
CleanIP(s) == SplitFirst(s, ":", 1)

\* /^\d+\.\d+\.\d+\.\d+$/ run over s from position i; g dots consumed so far,
\* n digits read in the current group.
RECURSIVE Scan(_, _, _, _)
Scan(s, i, g, n) ==
    IF i > Len(s) THEN g = 3 /\ n > 0
    ELSE IF s[i] \in Digit THEN Scan(s, i + 1, g, n + 1)
    ELSE IF s[i] = "." /\ n > 0 /\ g < 3 THEN Scan(s, i + 1, g + 1, 0)
    ELSE FALSE

\* Faulty variant: no validation (any string passes).
MatchesUnvalidated(s) == TRUE

\* cleanIP.match(/^\d+\.\d+\.\d+\.\d+$/)
Matches(s) == Scan(s, 1, 0, 0)

\* The body of the try block after `await response.json()`, for one body:
\* what becomes of the attempt and the value returned when it is "valid".
\*   "unparseable": json() rejected or data.ip threw: the catch block runs
\*   "nofield":     no truthy string under a known key: the loop goes on
\*   "invalid":     the cleaned value fails the pattern: the loop goes on
Normalise(d) ==
    IF d.kind \in {"throw", "null"} THEN [verdict |-> "unparseable", value |-> JNull]
    ELSE LET c == Candidate(d) IN
         IF ~(Truthy(c) /\ c.t = "string") THEN [verdict |-> "nofield", value |-> JNull]
         ELSE IF Matches(CleanIP(c.s)) THEN [verdict |-> "valid", value |-> Str(CleanIP(c.s))]
         ELSE [verdict |-> "invalid", value |-> JNull]

----------------------------------------------------------------------------
(* Objects: VisitorData and the partial objects spread into it.            *)

Absent == [t |-> "absent", s |-> <<>>, n |-> 0]

Fields == {"session_id", "user_agent", "referrer", "screen_resolution", "timezone",
           "ip_address", "country", "city", "timestamp"}

\* {}
EmptyObj == [k \in Fields |-> Absent]

\* { [key]: v }
Only(key, v) == [EmptyObj EXCEPT ![key] = v]

\* { ...a, ...b }: every own key of b overwrites a's.
Spread(a, b) == [k \in Fields |-> IF b[k] # Absent THEN b[k] ELSE a[k]]

\* A nullable object (useState<VisitorData | null>(null)).
Null == [isNull |-> TRUE, o |-> EmptyObj]
Some(obj) == [isNull |-> FALSE, o |-> obj]

UnableToDetect ==
    Str(<<"U", "n", "a", "b", "l", "e", " ", "t", "o", " ", "d", "e", "t", "e", "c", "t">>)
CollectionFailed ==
    Str(<<"C", "o", "l", "l", "e", "c", "t", "i", "o", "n", " ", "f", "a", "i", "l", "e", "d">>)
Direct == Str(<<"D", "i", "r", "e", "c", "t">>)

----------------------------------------------------------------------------
(* The environment and the network: the inputs of the model.               *)

\* Number of distinct values Math.random() / new Date() can produce here.
MaxSessions == 2
MaxInstants == 2

DigitChar(k) == CHOOSE c \in Digit : c = ToString(k)

\* Math.random().toString(36).substr(2, 9).toUpperCase()
SessionIds == {Str(<<"S", "I", "D", DigitChar(k)>>) : k \in 1..MaxSessions}

\* new Date().toISOString()
Instants == {Str(<<"T", DigitChar(k)>>) : k \in 1..MaxInstants}

\* navigator / document / screen / Intl as getVisitorInfo reads them.  referrer
\* is "" when the page was opened directly.
Environments ==
    {[userAgent |-> Str(<<"C", "h", "r", "o", "m", "e">>),
      referrer |-> r,
      resolution |-> Str(<<"8", "0", "0", "x", "6", "0", "0">>),
      timeZone |-> Str(<<"U", "T", "C">>)] : r \in {Str(<<>>), Str(<<"r", "e", "f">>)}}

Quad1 == <<"1", ".", "2", ".", "3", ".", "4">>
Quad2 == <<"2", "0", "3", ".", "0", ".", "1", "1", "3", ".", "5">>

\* Response bodies an IP endpoint may send.
IpBodies ==
    { Unparseable, NullBody, PrimBody,
      Obj(NoFields),
      Obj([NoFields EXCEPT !["ip"] = Str(Quad1)]),
      Obj([NoFields EXCEPT !["ip"] = Str(Quad2 \o <<":", "4", "4", "3">>)]),
      Obj([NoFields EXCEPT !["ip"] = Str(<<>>), !["origin"] = Str(Quad1)]),
      Obj([NoFields EXCEPT !["query"] = Str(<<"1", ".", "2", ".", "3">>)]) }

\* Response bodies the geo service may send: kind as for IP bodies, and the
\* two properties getGeoLocation reads.
GeoBody(kind, country, city) == [kind |-> kind, country_name |-> country, city |-> city]
France == Str(<<"F", "r", "a", "n", "c", "e">>)
Paris == Str(<<"P", "a", "r", "i", "s">>)
GeoBodies ==
    { GeoBody("throw", Undefined, Undefined),
      GeoBody("null", Undefined, Undefined),
      GeoBody("object", France, Paris),
      GeoBody("object", France, Undefined),
      GeoBody("object", Undefined, Undefined) }

----------------------------------------------------------------------------
(* The decisions and values of the pipeline's code.                        *)

\* Faulty variant: the failed endpoint is tried again.
NextServiceRetry(i) == i

\* for (const service of services): the element visited after the i-th.
NextService(i) == i + 1

\* Faulty variant: a timeout ends the whole resolution.
AfterFailureBreak(i, kind) == IF kind = "timeout" THEN "break" ELSE "continue"

\* What getVisitorIP does when endpoint i failed with `kind`: the catch block
\* (`continue`) and the fall-through of the loop body both go on to the next
\* element.  "break" would return null at once, "throw" would reject.
AfterFailure(i, kind) == "continue"

\* Faulty variant: the lookup is made whether or not an address was resolved.
GeoWantedAlways(v) == TRUE

\* if (ip)
GeoWanted(v) == Truthy(v)

\* getVisitorInfo(): the object it returns in environment env, drawing sid.
GetVisitorInfo(env, sid) ==
    [EmptyObj EXCEPT !["session_id"] = sid,
                     !["user_agent"] = env.userAgent,
                     !["referrer"] = Or(env.referrer, Direct),
                     !["screen_resolution"] = env.resolution,
                     !["timezone"] = env.timeZone]

\* getGeoLocation's return value for a parsed body.
GeoResult(d) == Spread(Only("country", d.country_name), Only("city", d.city))

\* Faulty variant: the failure is passed on to the caller.
GeoCatchRethrows == [raises |-> TRUE, value |-> EmptyObj]

\* What getGeoLocation does with a failure: the catch block returns {}.
GeoCatch == [raises |-> FALSE, value |-> EmptyObj]

\* { ...visitorInfo, ip_address: ip || 'Unable to detect', ...geoInfo, timestamp }
VisitorData(info, v, geo, ts) ==
    Spread(Spread(Spread(info, Only("ip_address", Or(v, UnableToDetect))), geo),
           Only("timestamp", ts))

\* { ...getVisitorInfo(), ip_address: 'Collection failed', timestamp }
FallbackData(info, ts) ==
    Spread(Spread(info, Only("ip_address", CollectionFailed)), Only("timestamp", ts))

\* if (!SUPABASE_URL || !SUPABASE_ANON_KEY)
Configured == Truthy(SUPABASE_URL) /\ Truthy(SUPABASE_ANON_KEY)

NoError == "undefined"
NotConfigured == "Supabase not configured"

\* collectVisitorData's results.
Pending == [state |-> "pending", success |-> FALSE, data |-> Null, error |-> NoError]
Rejected == [state |-> "rejected", success |-> FALSE, data |-> Null, error |-> NoError]
Resolved(success, obj, error) ==
    [state |-> "resolved", success |-> success, data |-> Some(obj), error |-> error]

\* Faulty variant: a failed save returns { success: false, error } alone.
CollectResultDroppingData(rec, saveResult) ==
    IF saveResult.success THEN Resolved(TRUE, rec, NoError)
    ELSE [state |-> "resolved", success |-> FALSE, data |-> Null, error |-> saveResult.error]

\* Faulty variant: after a failed save the record is rebuilt as the fallback.
CollectResultReassembled(rec, saveResult) ==
    IF saveResult.success THEN Resolved(TRUE, rec, NoError)
    ELSE Resolved(TRUE, Spread(rec, Only("ip_address", CollectionFailed)), saveResult.error)

\* return { success: true, data: visitorData,
\*          error: saveResult.success ? undefined : saveResult.error }
CollectResult(rec, saveResult) ==
    Resolved(TRUE, rec, IF saveResult.success THEN NoError ELSE saveResult.error)

----------------------------------------------------------------------------
(* The Shell: the progress animation (second effect of App) and the lines  *)
(* of the screen that depend on it.  Math.random() is k/RandomGrain for a  *)
(* k in 0..RandomGrain-1, and progress is counted in units of              *)
(* 1/RandomGrain, so that every sum below is exact.  A timer callback, the *)
(* state updater it queues and the render that follows are one action.     *)

\* Number of distinct values Math.random() can produce in the updater.
RandomGrain == 2

Randoms == 0..(RandomGrain - 1)

\* progress = 100, in units of 1/RandomGrain.
Full == 100 * RandomGrain

\* The two revisions of App: the factor of Math.random() in the updater, and
\* what the Session ID line falls back to when the record has no session_id.
LogVisitorShell == [factor |-> 12, placeholder |-> "random"]
RestShell == [factor |-> 15, placeholder |-> "LOGGED"]

Logged == Str(<<"L", "O", "G", "G", "E", "D">>)

\* useState initial values; no effect has run yet.
ShellInit ==
    /\ progress = 0
    /\ loading = TRUE
    /\ showFinalMessage = FALSE
    /\ animTimers = {}
    /\ mounted = TRUE
    /\ sessionShown = Undefined

\* Math.floor(progress)
Floor(p) == p \div RandomGrain

\* The loading screen: the text `{Math.floor(progress)}%` and the bar's
\* style width `${progress}%` (in units of 1/RandomGrain).
LoadingScreen == [percent |-> Floor(progress), width |-> progress]

\* #{visitorData?.session_id || <placeholder>}, sid being what Math.random()
\* yields in this render.
SessionLine(sh, vd, sid) ==
    Or(IF vd.isNull THEN Undefined ELSE vd.o["session_id"],
       IF sh.placeholder = "random" THEN sid ELSE Logged)

\* A render with loading = isLoading and visitorData = vd: the final screen,
\* Session ID line included, is rendered only once loading is false.
RenderSession(sh, isLoading, vd) ==
    IF isLoading THEN sessionShown' = sessionShown
    ELSE \E sid \in SessionIds : sessionShown' = SessionLine(sh, vd, sid)

\* prev => { if (prev >= 100) { ...; return 100; } return prev + Math.random() * factor; }
Updater(sh, prev, k) == IF prev >= Full THEN Full ELSE prev + k * sh.factor

\* Faulty variant: the interval is left armed.
TimersAfterUpdaterNotCleared(prev, armed) ==
    IF prev >= Full THEN armed \cup {"hideLoading"} ELSE armed

\* The updater's side effects on the timers armed: clearInterval(interval) and
\* setTimeout(..., 1000) once prev >= 100.
TimersAfterUpdater(prev, armed) ==
    IF prev >= Full THEN (armed \ {"interval"}) \cup {"hideLoading"} ELSE armed

\* The animation effect at mount: const startProgress = setTimeout(..., delay).
AnimationEffect ==
    /\ animTimers' = animTimers \cup {"startProgress"}
    /\ UNCHANGED <<progress, loading, showFinalMessage, mounted, sessionShown>>

\* startProgress fires: setInterval(...).  The cleanup function this callback
\* returns goes to nobody.
StartProgressFires ==
    /\ "startProgress" \in animTimers
    /\ animTimers' = (animTimers \ {"startProgress"}) \cup {"interval"}
    /\ UNCHANGED <<progress, loading, showFinalMessage, mounted, sessionShown>>
    /\ UNCHANGED collection

\* The interval fires: setProgress(updater).  On an unmounted view the update
\* is dropped; whether the updater is still called is React's business.
IntervalTick(sh) ==
    /\ "interval" \in animTimers
    /\ IF mounted
       THEN \E k \in Randoms :
               /\ progress' = Updater(sh, progress, k)
               /\ animTimers' = TimersAfterUpdater(progress, animTimers)
       ELSE \E called \in BOOLEAN :
               /\ progress' = progress
               /\ animTimers' = IF called THEN TimersAfterUpdater(progress, animTimers)
                                ELSE animTimers
    /\ UNCHANGED <<loading, showFinalMessage, mounted, sessionShown>>
    /\ UNCHANGED collection

\* Faulty variant: the loading screen is kept until the record has arrived.
HideLoadingFiresAfterCollection(sh) ==
    /\ "hideLoading" \in animTimers
    /\ ipCollected
    /\ animTimers' = (animTimers \ {"hideLoading"}) \cup {"showMessage"}
    /\ IF mounted
       THEN loading' = FALSE /\ RenderSession(sh, FALSE, visitorData)
       ELSE UNCHANGED <<loading, sessionShown>>
    /\ UNCHANGED <<progress, showFinalMessage, mounted>>
    /\ UNCHANGED collection

\* The 1000 ms timer fires: setLoading(false); setTimeout(..., 500).  The
\* final screen is rendered for the first time.
HideLoadingFires(sh) ==
    /\ "hideLoading" \in animTimers
    /\ animTimers' = (animTimers \ {"hideLoading"}) \cup {"showMessage"}
    /\ IF mounted
       THEN loading' = FALSE /\ RenderSession(sh, FALSE, visitorData)
       ELSE UNCHANGED <<loading, sessionShown>>
    /\ UNCHANGED <<progress, showFinalMessage, mounted>>
    /\ UNCHANGED collection

\* The 500 ms timer fires: setShowFinalMessage(true), and the final screen is
\* rendered again.
ShowMessageFires(sh) ==
    /\ "showMessage" \in animTimers
    /\ animTimers' = animTimers \ {"showMessage"}
    /\ IF mounted
       THEN showFinalMessage' = TRUE /\ RenderSession(sh, loading, visitorData)
       ELSE UNCHANGED <<showFinalMessage, sessionShown>>
    /\ UNCHANGED <<progress, loading, mounted>>
    /\ UNCHANGED collection

\* The view unmounts: the effect's cleanup runs, () => clearTimeout(startProgress).
Unmount ==
    /\ ~EffectsPending
    /\ mounted
    /\ mounted' = FALSE
    /\ animTimers' = animTimers \ {"startProgress"}
    /\ UNCHANGED <<progress, loading, showFinalMessage, sessionShown>>
    /\ UNCHANGED collection

----------------------------------------------------------------------------
(* The pipeline.  Continuations first: each is the rest of a task once the *)
(* awaited call has settled, and is used by the actions that settle it.    *)

IpTimer(i) == <<"ip", i>>
GeoTimer == <<"geo", 0>>

\* collectVisitorData settles with res and collectData (the App effect) goes
\* on: setVisitorData(result.data); setIpCollected(true) -- or its catch block.
Finish(res) ==
    /\ result' = res
    /\ pc' = "done"
    /\ IF res.state = "resolved"
       THEN /\ visitorData' = res.data
            /\ ipCollected' = TRUE
            /\ RenderSession(RestShell, loading, res.data)
       ELSE UNCHANGED <<visitorData, ipCollected, sessionShown>>

\* The catch block of collectVisitorData; r: what has raised so far.
Fallback(r) ==
    /\ UNCHANGED saveOutcome
    /\ \E env \in Environments, sid \in SessionIds, ts \in Instants, infoOk \in BOOLEAN :
        IF infoOk
        THEN /\ raised' = r
             /\ Finish(Resolved(FALSE, FallbackData(GetVisitorInfo(env, sid), ts),
                                "Unknown error"))
        ELSE /\ raised' = r \cup {"getVisitorInfo", "collectVisitorData"}
             /\ Finish(Rejected)

\* collectVisitorData from "Combine all data" on, saveToSupabase's synchronous
\* part included.
AfterGeo(info, v, geo, r) ==
    \E ts \in Instants :
        LET rec == VisitorData(info, v, geo, ts) IN
        /\ assembled' = Some(rec)
        /\ raised' = r
        /\ IF Configured
           THEN /\ posted' = Append(posted, rec)
                /\ pc' = "save_fetch"
                /\ UNCHANGED <<saveOutcome, result, visitorData, ipCollected, sessionShown>>
           ELSE /\ posted' = posted
                /\ saveOutcome' = "not_configured"
                /\ Finish(CollectResult(rec, [success |-> FALSE, error |-> NotConfigured]))

\* collectVisitorData after `await getVisitorIP()` returned v; tm: the timers
\* armed at that moment.
AfterIP(v, tm) ==
    /\ ip' = v
    /\ \E env \in Environments, sid \in SessionIds, infoOk \in BOOLEAN :
        IF ~infoOk
        THEN /\ timers' = tm
             /\ UNCHANGED <<visitorInfo, geoRequests, geoOutcome, geoInfo, assembled, posted>>
             /\ Fallback(raised \cup {"getVisitorInfo"})
        ELSE LET info == GetVisitorInfo(env, sid) IN
             /\ visitorInfo' = Some(info)
             /\ IF GeoWanted(v)
                THEN /\ timers' = tm \cup {GeoTimer}
                     /\ geoRequests' = Append(geoRequests, v)
                     /\ pc' = "geo_fetch"
                     /\ UNCHANGED <<geoOutcome, geoInfo, assembled, posted, result, raised, saveOutcome,
                                    visitorData, ipCollected, sessionShown>>
                ELSE /\ timers' = tm
                     /\ UNCHANGED <<geoRequests, geoOutcome, geoInfo>>
                     /\ AfterGeo(info, v, EmptyObj, raised)

\* getVisitorIP rejects (no path of the code does; kept for the catch block of
\* collectVisitorData, which would receive it).
IpThrows(tm) ==
    /\ timers' = tm
    /\ UNCHANGED <<ip, visitorInfo, geoRequests, geoOutcome, geoInfo, assembled, posted>>
    /\ Fallback(raised \cup {"getVisitorIP"})

\* A new iteration of the loop: new AbortController, setTimeout, fetch.
StartAttempt(i, tm) ==
    /\ svc' = i
    /\ contacted' = Append(contacted, i)
    /\ timers' = tm \cup {IpTimer(i)}
    /\ pc' = "ip_fetch"
    /\ UNCHANGED <<ip, visitorInfo, geoRequests, geoOutcome, geoInfo, assembled, posted,
                   result, raised, saveOutcome, visitorData, ipCollected, sessionShown>>

\* The attempt on endpoint i ended without an address, by `kind`.
EndAttempt(i, kind, tm) ==
    /\ outcome' = [svc |-> i, kind |-> kind]
    /\ LET how == AfterFailure(i, kind) IN
       IF how = "throw" THEN UNCHANGED <<svc, contacted>> /\ IpThrows(tm)
       ELSE IF how = "continue" /\ i < Len(services) THEN StartAttempt(NextService(i), tm)
       ELSE UNCHANGED <<svc, contacted>> /\ AfterIP(JNull, tm)

\* getGeoLocation ended by a failure of `kind`, and collectVisitorData goes on.
GeoFails(kind, tm) ==
    /\ geoOutcome' = kind
    /\ timers' = tm
    /\ LET c == GeoCatch IN
       IF c.raises
       THEN /\ UNCHANGED <<geoInfo, assembled, posted>>
            /\ Fallback(raised \cup {"getGeoLocation"})
       ELSE /\ geoInfo' = c.value
            /\ AfterGeo(visitorInfo.o, ip, c.value, raised)

\* saveToSupabase returned saveResult, and collectVisitorData returns.
SaveEnds(how, saveResult) ==
    /\ saveOutcome' = how
    /\ Finish(CollectResult(assembled.o, saveResult))
    /\ UNCHANGED <<svc, timers, contacted, outcome, data, ip, visitorInfo, geoRequests,
                   geoOutcome, geoInfo, assembled, posted, raised,
                   SUPABASE_URL, SUPABASE_ANON_KEY, progress, loading,
                   showFinalMessage, animTimers, mounted>>

----------------------------------------------------------------------------
(* Actions.                                                                *)

\* The view mounts: the effect calls collectData(), which runs up to the first
\* await -- the fetch of the first endpoint.
CollectEffect ==
    /\ pc = "mount"
    /\ StartAttempt(1, timers)
    /\ UNCHANGED <<outcome, data, SUPABASE_URL, SUPABASE_ANON_KEY>>

\* The collection task alone: the animation is left where it is.
Mount ==
    /\ CollectEffect
    /\ UNCHANGED <<progress, loading, showFinalMessage, animTimers, mounted>>

\* fetch(service) resolves: clearTimeout(timeoutId); if (!response.ok) continue;
\* otherwise response.json() is awaited.
IpResponse ==
    /\ pc = "ip_fetch"
    /\ \E ok \in BOOLEAN :
        IF ok
        THEN /\ pc' = "ip_json"
             /\ timers' = timers \ {IpTimer(svc)}
             /\ UNCHANGED <<svc, contacted, outcome, ip, visitorInfo, geoRequests, geoOutcome,
                            geoInfo, assembled, posted, result, raised, saveOutcome, visitorData,
                            ipCollected, sessionShown>>
        ELSE EndAttempt(svc, "status", timers \ {IpTimer(svc)})
    /\ UNCHANGED <<data, SUPABASE_URL, SUPABASE_ANON_KEY, progress, loading,
                   showFinalMessage, animTimers, mounted>>

\* fetch(service) rejects before the deadline (DNS, connection, CORS): the
\* catch block runs; clearTimeout is skipped, so the timer stays armed.
IpNetworkError ==
    /\ pc = "ip_fetch"
    /\ EndAttempt(svc, "network", timers)
    /\ UNCHANGED <<data, SUPABASE_URL, SUPABASE_ANON_KEY, progress, loading,
                   showFinalMessage, animTimers, mounted>>

\* The 5000 ms timer of the attempt in flight fires: controller.abort() rejects
\* the pending fetch and the catch block runs.
IpTimeout ==
    /\ pc = "ip_fetch"
    /\ IpTimer(svc) \in timers
    /\ EndAttempt(svc, "timeout", timers \ {IpTimer(svc)})
    /\ UNCHANGED <<data, SUPABASE_URL, SUPABASE_ANON_KEY, progress, loading,
                   showFinalMessage, animTimers, mounted>>

\* response.json() settles with body d, and the rest of the loop body runs.
IpBody ==
    /\ pc = "ip_json"
    /\ \E d \in IpBodies :
        /\ data' = d
        /\ LET r == Normalise(d) IN
           IF r.verdict = "valid"
           THEN /\ outcome' = [svc |-> svc, kind |-> "valid"]
                /\ UNCHANGED <<svc, contacted>>
                /\ AfterIP(r.value, timers)
           ELSE EndAttempt(svc, r.verdict, timers)
    /\ UNCHANGED <<SUPABASE_URL, SUPABASE_ANON_KEY, progress, loading,
                   showFinalMessage, animTimers, mounted>>

\* fetch(geo url) resolves: clearTimeout(timeoutId); a non-2xx status throws
\* 'Geo API failed' into the catch block; otherwise response.json() is awaited.
GeoResponse ==
    /\ pc = "geo_fetch"
    /\ \E ok \in BOOLEAN :
        IF ok
        THEN /\ pc' = "geo_json"
             /\ timers' = timers \ {GeoTimer}
             /\ UNCHANGED <<geoOutcome, geoInfo, assembled, posted, result, raised, saveOutcome,
                            visitorData, ipCollected, sessionShown>>
        ELSE GeoFails("status", timers \ {GeoTimer})
    /\ UNCHANGED <<svc, contacted, outcome, data, ip, visitorInfo, geoRequests,
                   SUPABASE_URL, SUPABASE_ANON_KEY, progress, loading,
                   showFinalMessage, animTimers, mounted>>

\* fetch(geo url) rejects before the deadline; the timer stays armed.
GeoNetworkError ==
    /\ pc = "geo_fetch"
    /\ GeoFails("network", timers)
    /\ UNCHANGED <<svc, contacted, outcome, data, ip, visitorInfo, geoRequests,
                   SUPABASE_URL, SUPABASE_ANON_KEY, progress, loading,
                   showFinalMessage, animTimers, mounted>>

\* The 5000 ms timer of the geo lookup fires while its fetch is pending.
GeoTimeout ==
    /\ pc = "geo_fetch"
    /\ GeoTimer \in timers
    /\ GeoFails("timeout", timers \ {GeoTimer})
    /\ UNCHANGED <<svc, contacted, outcome, data, ip, visitorInfo, geoRequests,
                   SUPABASE_URL, SUPABASE_ANON_KEY, progress, loading,
                   showFinalMessage, animTimers, mounted>>

\* The geo response.json() settles with body d.
GeoBodyArrives ==
    /\ pc = "geo_json"
    /\ \E d \in GeoBodies :
        IF d.kind \in {"throw", "null"}
        THEN GeoFails("unparseable", timers)
        ELSE /\ geoOutcome' = "ok"
             /\ geoInfo' = GeoResult(d)
             /\ timers' = timers
             /\ AfterGeo(visitorInfo.o, ip, GeoResult(d), raised)
    /\ UNCHANGED <<svc, contacted, outcome, data, ip, visitorInfo, geoRequests,
                   SUPABASE_URL, SUPABASE_ANON_KEY, progress, loading,
                   showFinalMessage, animTimers, mounted>>

\* A timer fires whose fetch has already settled (its attempt ended by a
\* network error, which skips clearTimeout): abort() has nothing to abort.
StaleTimeout ==
    /\ \E t \in timers :
        /\ ~(pc = "ip_fetch" /\ t = IpTimer(svc))
        /\ ~(pc = "geo_fetch" /\ t = GeoTimer)
        /\ timers' = timers \ {t}
    /\ UNCHANGED <<pc, svc, contacted, outcome, data, ip, visitorInfo, geoRequests,
                   geoOutcome, geoInfo, assembled, posted, result, raised, saveOutcome, visitorData,
                   ipCollected, sessionShown, SUPABASE_URL, SUPABASE_ANON_KEY, progress, loading,
                   showFinalMessage, animTimers, mounted>>

\* The storage POST resolves: a 2xx status is success; otherwise
\* response.text() is awaited to build the error.
SaveResponse ==
    /\ pc = "save_fetch"
    /\ \E ok \in BOOLEAN :
        IF ok
        THEN SaveEnds("ok", [success |-> TRUE, error |-> NoError])
        ELSE /\ pc' = "save_text"
             /\ UNCHANGED vars_but_pc

\* Faulty variant: a rejected POST is sent once more before giving up.
SaveNetworkErrorRetrying ==
    /\ pc = "save_fetch"
    /\ IF Len(posted) < 2
       THEN /\ posted' = Append(posted, assembled.o)
            /\ UNCHANGED <<pc, svc, timers, contacted, outcome, data, ip, visitorInfo,
                           geoRequests, geoOutcome, geoInfo, assembled, saveOutcome, result,
                           raised, visitorData, ipCollected, sessionShown, SUPABASE_URL,
                           SUPABASE_ANON_KEY, progress, loading, showFinalMessage,
                           animTimers, mounted>>
       ELSE SaveEnds("network", [success |-> FALSE, error |-> "Failed to fetch"])

\* The storage POST rejects (transport error): the catch block returns the
\* structured failure.
SaveNetworkError ==
    /\ pc = "save_fetch"
    /\ SaveEnds("network", [success |-> FALSE, error |-> "Failed to fetch"])

\* response.text() settles, either way into `throw new Error(...)` or the
\* catch block: the structured failure is returned.
SaveErrorText ==
    /\ pc = "save_text"
    /\ \E read \in BOOLEAN :
        SaveEnds("status", [success |-> FALSE,
                            error |-> IF read THEN "Supabase error" ELSE "Failed to fetch"])

----------------------------------------------------------------------------
(* The page: module load fixes the configuration, then the view mounts.    *)

\* `data` before the first body is parsed.
NoBody == [kind |-> "none", f |-> NoFields]

\* import.meta.env.VITE_SUPABASE_URL / VITE_SUPABASE_ANON_KEY: set or not.
EnvSettings == {Undefined, Str(<<"s", "e", "t">>)}

Init ==
    /\ pc = "mount"
    /\ svc = 0
    /\ timers = {}
    /\ contacted = <<>>
    /\ outcome = [svc |-> 0, kind |-> "none"]
    /\ data = NoBody
    /\ ip = Undefined
    /\ visitorInfo = Null
    /\ geoRequests = <<>>
    /\ geoOutcome = "none"
    /\ geoInfo = EmptyObj
    /\ assembled = Null
    /\ posted = <<>>
    /\ saveOutcome = "none"
    /\ result = Pending
    /\ raised = {}
    /\ visitorData = Null
    /\ ipCollected = FALSE
    /\ ShellInit
    /\ SUPABASE_URL \in EnvSettings
    /\ SUPABASE_ANON_KEY \in EnvSettings

Next ==
    \/ Mount
    \/ IpResponse
    \/ IpNetworkError
    \/ IpTimeout
    \/ IpBody
    \/ GeoResponse
    \/ GeoNetworkError
    \/ GeoTimeout
    \/ GeoBodyArrives
    \/ StaleTimeout
    \/ SaveResponse
    \/ SaveNetworkError
    \/ SaveErrorText

Spec == Init /\ [][Next]_vars

\* An armed timer fires, and the effect runs once the view is rendered;
\* nothing is assumed of the network.
TimerFairness ==
    /\ WF_vars(Mount)
    /\ WF_vars(IpTimeout)
    /\ WF_vars(GeoTimeout)
    /\ WF_vars(StaleTimeout)

SpecTimers == Init /\ [][Next]_vars /\ TimerFairness

----------------------------------------------------------------------------
(* The normalisation alone, over every short string and every combination  *)
(* of small values under the four keys.                                    *)

MaxLen == 9

Alphabet == {"1", ".", ":", "x"}

SmallValues == {Undefined, JNull, Num(0), Num(7), Str(<<>>), Str(<<"x">>), Str(Quad1),
                Str(Quad2 \o <<":", "4", "4", "3">>)}

\* The bodies the check starts from; NormGrow extends the string under "ip".
NormBodies ==
    {Unparseable, NullBody, PrimBody} \cup {Obj(f) : f \in [DOMAIN NoFields -> SmallValues]}

NormInit ==
    /\ pc = "norm"
    /\ data \in NormBodies
    /\ svc = 1
    /\ timers = {}
    /\ contacted = <<1>>
    /\ outcome = [svc |-> 0, kind |-> "none"]
    /\ ip = Undefined
    /\ visitorInfo = Null
    /\ geoRequests = <<>>
    /\ geoOutcome = "none"
    /\ geoInfo = EmptyObj
    /\ assembled = Null
    /\ posted = <<>>
    /\ saveOutcome = "none"
    /\ result = Pending
    /\ raised = {}
    /\ visitorData = Null
    /\ ipCollected = FALSE
    /\ ShellInit
    /\ SUPABASE_URL = Undefined
    /\ SUPABASE_ANON_KEY = Undefined

\* One pass of the loop body over the parsed body `data`: the address it
\* returns, or null when the attempt is abandoned.
NormStep ==
    /\ pc = "norm"
    /\ pc' = "norm_done"
    /\ ip' = Normalise(data).value
    /\ outcome' = [svc |-> svc, kind |-> Normalise(data).verdict]
    /\ UNCHANGED <<svc, timers, contacted, data, visitorInfo, geoRequests, geoOutcome,
                   geoInfo, assembled, posted, result, raised, saveOutcome, visitorData, ipCollected, sessionShown,
                   SUPABASE_URL, SUPABASE_ANON_KEY, progress, loading,
                   showFinalMessage, animTimers, mounted>>

\* The input grows: one more character of the value under "ip".
NormGrow ==
    /\ pc = "norm"
    /\ data.kind = "object"
    /\ data.f["ip"].t = "string"
    /\ \A k \in DOMAIN NoFields \ {"ip"} : data.f[k] = Undefined
    /\ Len(data.f["ip"].s) < MaxLen
    /\ \E c \in Alphabet :
        data' = Obj([data.f EXCEPT !["ip"] = Str(Append(data.f["ip"].s, c))])
    /\ UNCHANGED <<pc, svc, timers, contacted, outcome, ip, visitorInfo, geoRequests,
                   geoOutcome, geoInfo, assembled, posted, result, raised, saveOutcome, visitorData,
                   ipCollected, sessionShown, SUPABASE_URL, SUPABASE_ANON_KEY, progress, loading,
                   showFinalMessage, animTimers, mounted>>

SpecNorm == NormInit /\ [][NormStep \/ NormGrow]_vars

----------------------------------------------------------------------------
(* The createClient revision of lib/supabase.ts (its lines 136-257) under  *)
(* the logVisitor-based Shell: module load, then logVisitor on mount.  No  *)
(* timer is armed anywhere in this revision.                               *)

\* const services = [...] of this revision's getVisitorIP.
clientServices == <<"https://api.ipify.org?format=json", "https://ipapi.co/json/",
                    "https://ipinfo.io/json">>

\* data.ip || data.query || data.ipAddress
ClientCandidate(d) == Or(Or(d.f["ip"], d.f["query"]), d.f["ipAddress"])

\* The loop body after `await response.json()`: any truthy string is returned
\* as it is.
ClientNormalise(d) ==
    IF d.kind \in {"throw", "null"} THEN [verdict |-> "unparseable", value |-> JNull]
    ELSE LET c == ClientCandidate(d) IN
         IF Truthy(c) /\ c.t = "string" THEN [verdict |-> "valid", value |-> c]
         ELSE [verdict |-> "nofield", value |-> JNull]

\* { ...visitorInfo, ip_address: ip, ...geoInfo }
LogData(info, v, geo) == Spread(Spread(info, Only("ip_address", v)), geo)

\* logVisitor's results without data: { success: false, error }.
Failure(error) == [state |-> "resolved", success |-> FALSE, data |-> Null, error |-> error]

\* logVisitor resolved with res, and the App effect goes on.
ClientFinish(res) ==
    /\ result' = res
    /\ pc' = "done"
    /\ IF ~res.data.isNull
       THEN /\ visitorData' = res.data
            /\ ipCollected' = TRUE
            /\ RenderSession(LogVisitorShell, loading, res.data)
       ELSE UNCHANGED <<visitorData, ipCollected, sessionShown>>

\* logVisitor from "Combine all data" up to the insert being sent.
ClientAfterGeo(info, v, geo) ==
    /\ assembled' = Some(LogData(info, v, geo))
    /\ posted' = Append(posted, LogData(info, v, geo))
    /\ pc' = "client_insert"
    /\ UNCHANGED <<saveOutcome, result, raised, visitorData, ipCollected, sessionShown>>

\* logVisitor after `await getVisitorIP()` returned v.
ClientAfterIP(v) ==
    /\ ip' = v
    /\ \E env \in Environments, sid \in SessionIds, infoOk \in BOOLEAN :
        IF ~infoOk
        THEN /\ raised' = raised \cup {"getVisitorInfo"}
             /\ ClientFinish(Failure("Unknown error"))
             /\ UNCHANGED <<visitorInfo, geoRequests, assembled, posted, saveOutcome>>
        ELSE LET info == GetVisitorInfo(env, sid) IN
             /\ visitorInfo' = Some(info)
             /\ IF Truthy(v)
                THEN /\ geoRequests' = Append(geoRequests, v)
                     /\ pc' = "client_geo_fetch"
                     /\ UNCHANGED <<assembled, posted, saveOutcome, result, raised,
                                    visitorData, ipCollected, sessionShown>>
                ELSE /\ UNCHANGED geoRequests
                     /\ ClientAfterGeo(info, v, EmptyObj)

\* The attempt on endpoint i ended without an address: the next one is
\* fetched, or null is returned after the last.
ClientEndAttempt(i, kind) ==
    /\ outcome' = [svc |-> i, kind |-> kind]
    /\ IF i < Len(clientServices)
       THEN /\ svc' = i + 1
            /\ contacted' = Append(contacted, i + 1)
            /\ pc' = "client_ip_fetch"
            /\ UNCHANGED <<ip, visitorInfo, geoRequests, assembled, posted, saveOutcome,
                           result, raised, visitorData, ipCollected, sessionShown>>
       ELSE /\ UNCHANGED <<svc, contacted>>
            /\ ClientAfterIP(JNull)

\* getGeoLocation returned geo to logVisitor.
ClientGeoReturns(how, geo) ==
    /\ geoOutcome' = how
    /\ geoInfo' = geo
    /\ ClientAfterGeo(visitorInfo.o, ip, geo)
    /\ UNCHANGED <<svc, timers, contacted, outcome, data, ip, visitorInfo, geoRequests,
                   SUPABASE_URL, SUPABASE_ANON_KEY, progress, loading,
                   showFinalMessage, animTimers, mounted>>

\* Module load: if (!supabaseUrl || !supabaseAnonKey) throw new Error(...);
\* otherwise createClient.  A throw here fails the import: the page never
\* renders and the view never mounts.
ClientLoad ==
    /\ pc = "load"
    /\ pc' = IF Configured THEN "client_mount" ELSE "load_failed"
    /\ UNCHANGED vars_but_pc

\* The first effect of App at mount: logVisitor() runs up to the fetch of the
\* first endpoint.
ClientCollectEffect ==
    /\ pc = "client_mount"
    /\ pc' = "client_ip_fetch"
    /\ svc' = 1
    /\ contacted' = Append(contacted, 1)
    /\ UNCHANGED <<timers, outcome, data, ip, visitorInfo, geoRequests, geoOutcome, geoInfo,
                   assembled, posted, saveOutcome, result, raised, visitorData, ipCollected,
                   sessionShown, SUPABASE_URL, SUPABASE_ANON_KEY>>

\* The collection task alone: the animation is left where it is.
ClientMount ==
    /\ ClientCollectEffect
    /\ UNCHANGED <<progress, loading, showFinalMessage, animTimers, mounted>>

\* fetch(service) resolves, with any status: response.json() is awaited.
ClientIpResponse ==
    /\ pc = "client_ip_fetch"
    /\ pc' = "client_ip_json"
    /\ UNCHANGED vars_but_pc

\* fetch(service) rejects: the catch block continues.
ClientIpNetworkError ==
    /\ pc = "client_ip_fetch"
    /\ ClientEndAttempt(svc, "network")
    /\ UNCHANGED <<timers, data, geoOutcome, geoInfo, SUPABASE_URL, SUPABASE_ANON_KEY, progress, loading,
                   showFinalMessage, animTimers, mounted>>

\* response.json() settles with body d, and the rest of the loop body runs.
ClientIpBody ==
    /\ pc = "client_ip_json"
    /\ \E d \in IpBodies :
        /\ data' = d
        /\ LET r == ClientNormalise(d) IN
           IF r.verdict = "valid"
           THEN /\ outcome' = [svc |-> svc, kind |-> "valid"]
                /\ UNCHANGED <<svc, contacted>>
                /\ ClientAfterIP(r.value)
           ELSE ClientEndAttempt(svc, r.verdict)
    /\ UNCHANGED <<timers, geoOutcome, geoInfo, SUPABASE_URL, SUPABASE_ANON_KEY, progress, loading,
                   showFinalMessage, animTimers, mounted>>

\* fetch(geo url) resolves, with any status: response.json() is awaited.
ClientGeoResponse ==
    /\ pc = "client_geo_fetch"
    /\ pc' = "client_geo_json"
    /\ UNCHANGED vars_but_pc

\* fetch(geo url) rejects: the catch block returns {}.
ClientGeoNetworkError ==
    /\ pc = "client_geo_fetch"
    /\ ClientGeoReturns("network", EmptyObj)

\* The geo response.json() settles with body d.
ClientGeoBody ==
    /\ pc = "client_geo_json"
    /\ \E d \in GeoBodies :
        IF d.kind \in {"throw", "null"}
        THEN ClientGeoReturns("unparseable", EmptyObj)
        ELSE ClientGeoReturns("ok", GeoResult(d))

\* The insert's { data, error } arrives: on error logVisitor returns
\* { success: false, error }, otherwise { success: true, data } with the
\* stored row.
ClientInsertReturns ==
    /\ pc = "client_insert"
    /\ \E stored \in BOOLEAN, ts \in Instants :
        IF stored
        THEN /\ saveOutcome' = "ok"
             /\ ClientFinish(Resolved(TRUE, Spread(assembled.o, Only("timestamp", ts)),
                                      NoError))
        ELSE /\ saveOutcome' = "status"
             /\ ClientFinish(Failure("insert failed"))
    /\ UNCHANGED <<svc, timers, contacted, outcome, data, ip, visitorInfo, geoRequests,
                   geoOutcome, geoInfo, assembled, posted, raised,
                   SUPABASE_URL, SUPABASE_ANON_KEY, progress, loading,
                   showFinalMessage, animTimers, mounted>>

ClientInit ==
    /\ pc = "load"
    /\ svc = 0
    /\ timers = {}
    /\ contacted = <<>>
    /\ outcome = [svc |-> 0, kind |-> "none"]
    /\ data = NoBody
    /\ ip = Undefined
    /\ visitorInfo = Null
    /\ geoRequests = <<>>
    /\ geoOutcome = "none"
    /\ geoInfo = EmptyObj
    /\ assembled = Null
    /\ posted = <<>>
    /\ saveOutcome = "none"
    /\ result = Pending
    /\ raised = {}
    /\ visitorData = Null
    /\ ipCollected = FALSE
    /\ ShellInit
    /\ SUPABASE_URL \in EnvSettings
    /\ SUPABASE_ANON_KEY \in EnvSettings

ClientNext ==
    \/ ClientLoad
    \/ ClientMount
    \/ ClientIpResponse
    \/ ClientIpNetworkError
    \/ ClientIpBody
    \/ ClientGeoResponse
    \/ ClientGeoNetworkError
    \/ ClientGeoBody
    \/ ClientInsertReturns

SpecClient == ClientInit /\ [][ClientNext]_vars

----------------------------------------------------------------------------
(* The demo-mode revision of lib/supabase.ts (its first 134 lines) under   *)
(* the logVisitor-based Shell: `supabase` is null when the configuration   *)
(* is missing, and logVisitor then returns the record without storing it.  *)

\* const services = [...] of this revision's getVisitorIP.
demoServices == <<"https://api.ipify.org?format=json", "https://ipapi.co/json/",
                  "https://api.my-ip.io/ip.json">>

ErrorCollectingIP ==
    Str(<<"E", "r", "r", "o", "r", " ", "c", "o", "l", "l", "e", "c", "t", "i", "n", "g",
          " ", "I", "P">>)

\* The loop body after `await response.json()`:
\* if (ip && typeof ip === 'string' && ip.match(/^\d+\.\d+\.\d+\.\d+$/)) return ip
DemoNormalise(d) ==
    IF d.kind \in {"throw", "null"} THEN [verdict |-> "unparseable", value |-> JNull]
    ELSE LET c == ClientCandidate(d) IN
         IF ~(Truthy(c) /\ c.t = "string") THEN [verdict |-> "nofield", value |-> JNull]
         ELSE IF Matches(c.s) THEN [verdict |-> "valid", value |-> c]
         ELSE [verdict |-> "invalid", value |-> JNull]

\* The catch block of logVisitor:
\* { success: false, error, data: { ip_address: 'Error collecting IP' } }
DemoCaught == Resolved(FALSE, Only("ip_address", ErrorCollectingIP), "Unknown error")

\* logVisitor from "Combine all data" on: the insert is sent if (supabase),
\* otherwise the record is returned as it is.
DemoAfterGeo(info, v, geo) ==
    LET logData == LogData(info, v, geo) IN
    /\ assembled' = Some(logData)
    /\ raised' = raised
    /\ IF Configured
       THEN /\ posted' = Append(posted, logData)
            /\ pc' = "demo_insert"
            /\ UNCHANGED <<saveOutcome, result, visitorData, ipCollected, sessionShown>>
       ELSE /\ posted' = posted
            /\ saveOutcome' = "not_configured"
            /\ ClientFinish(Resolved(TRUE, logData, NoError))

\* logVisitor after `await getVisitorIP()` returned v.
DemoAfterIP(v) ==
    /\ ip' = v
    /\ \E env \in Environments, sid \in SessionIds, infoOk \in BOOLEAN :
        IF ~infoOk
        THEN /\ raised' = raised \cup {"getVisitorInfo"}
             /\ ClientFinish(DemoCaught)
             /\ UNCHANGED <<visitorInfo, geoRequests, assembled, posted, saveOutcome>>
        ELSE LET info == GetVisitorInfo(env, sid) IN
             /\ visitorInfo' = Some(info)
             /\ IF Truthy(v)
                THEN /\ geoRequests' = Append(geoRequests, v)
                     /\ pc' = "demo_geo_fetch"
                     /\ UNCHANGED <<assembled, posted, saveOutcome, result, raised,
                                    visitorData, ipCollected, sessionShown>>
                ELSE /\ UNCHANGED geoRequests
                     /\ DemoAfterGeo(info, v, EmptyObj)

\* The attempt on endpoint i ended without an address: the next one is
\* fetched, or null is returned after the last.
DemoEndAttempt(i, kind) ==
    /\ outcome' = [svc |-> i, kind |-> kind]
    /\ IF i < Len(demoServices)
       THEN /\ svc' = i + 1
            /\ contacted' = Append(contacted, i + 1)
            /\ pc' = "demo_ip_fetch"
            /\ UNCHANGED <<ip, visitorInfo, geoRequests, assembled, posted, saveOutcome,
                           result, raised, visitorData, ipCollected, sessionShown>>
       ELSE /\ UNCHANGED <<svc, contacted>>
            /\ DemoAfterIP(JNull)

\* getGeoLocation returned geo to logVisitor.
DemoGeoReturns(how, geo) ==
    /\ geoOutcome' = how
    /\ geoInfo' = geo
    /\ DemoAfterGeo(visitorInfo.o, ip, geo)
    /\ UNCHANGED <<svc, timers, contacted, outcome, data, ip, visitorInfo, geoRequests,
                   SUPABASE_URL, SUPABASE_ANON_KEY, progress, loading,
                   showFinalMessage, animTimers, mounted>>

\* The first effect of App at mount: logVisitor() runs up to the fetch of the
\* first endpoint.
DemoCollectEffect ==
    /\ pc = "demo_mount"
    /\ pc' = "demo_ip_fetch"
    /\ svc' = 1
    /\ contacted' = Append(contacted, 1)
    /\ UNCHANGED <<timers, outcome, data, ip, visitorInfo, geoRequests, geoOutcome, geoInfo,
                   assembled, posted, saveOutcome, result, raised, visitorData, ipCollected,
                   sessionShown, SUPABASE_URL, SUPABASE_ANON_KEY>>

\* The collection task alone: the animation is left where it is.
DemoMount ==
    /\ DemoCollectEffect
    /\ UNCHANGED <<progress, loading, showFinalMessage, animTimers, mounted>>

\* fetch(service, { timeout: 5000 }) resolves, with any status (fetch knows no
\* timeout option, so no deadline runs): response.json() is awaited.
DemoIpResponse ==
    /\ pc = "demo_ip_fetch"
    /\ pc' = "demo_ip_json"
    /\ UNCHANGED vars_but_pc

\* fetch(service) rejects: the catch block continues.
DemoIpNetworkError ==
    /\ pc = "demo_ip_fetch"
    /\ DemoEndAttempt(svc, "network")
    /\ UNCHANGED <<timers, data, geoOutcome, geoInfo, SUPABASE_URL, SUPABASE_ANON_KEY,
                   progress, loading, showFinalMessage, animTimers, mounted>>

\* response.json() settles with body d, and the rest of the loop body runs.
DemoIpBody ==
    /\ pc = "demo_ip_json"
    /\ \E d \in IpBodies :
        /\ data' = d
        /\ LET r == DemoNormalise(d) IN
           IF r.verdict = "valid"
           THEN /\ outcome' = [svc |-> svc, kind |-> "valid"]
                /\ UNCHANGED <<svc, contacted>>
                /\ DemoAfterIP(r.value)
           ELSE DemoEndAttempt(svc, r.verdict)
    /\ UNCHANGED <<timers, geoOutcome, geoInfo, SUPABASE_URL, SUPABASE_ANON_KEY,
                   progress, loading, showFinalMessage, animTimers, mounted>>

\* fetch(geo url) resolves, with any status: response.json() is awaited.
DemoGeoResponse ==
    /\ pc = "demo_geo_fetch"
    /\ pc' = "demo_geo_json"
    /\ UNCHANGED vars_but_pc

\* fetch(geo url) rejects: the catch block returns {}.
DemoGeoNetworkError ==
    /\ pc = "demo_geo_fetch"
    /\ DemoGeoReturns("network", EmptyObj)

\* The geo response.json() settles with body d.
DemoGeoBody ==
    /\ pc = "demo_geo_json"
    /\ \E d \in GeoBodies :
        IF d.kind \in {"throw", "null"}
        THEN DemoGeoReturns("unparseable", EmptyObj)
        ELSE DemoGeoReturns("ok", GeoResult(d))

\* The insert's { data, error } arrives: on error logVisitor returns
\* { success: false, error, data: logData }, otherwise { success: true, data }
\* with the stored row.
DemoInsertReturns ==
    /\ pc = "demo_insert"
    /\ \E stored \in BOOLEAN, ts \in Instants :
        IF stored
        THEN /\ saveOutcome' = "ok"
             /\ ClientFinish(Resolved(TRUE, Spread(assembled.o, Only("timestamp", ts)),
                                      NoError))
        ELSE /\ saveOutcome' = "status"
             /\ ClientFinish(Resolved(FALSE, assembled.o, "insert failed"))
    /\ UNCHANGED <<svc, timers, contacted, outcome, data, ip, visitorInfo, geoRequests,
                   geoOutcome, geoInfo, assembled, posted, raised,
                   SUPABASE_URL, SUPABASE_ANON_KEY, progress, loading,
                   showFinalMessage, animTimers, mounted>>

DemoInit ==
    /\ pc = "demo_mount"
    /\ svc = 0
    /\ timers = {}
    /\ contacted = <<>>
    /\ outcome = [svc |-> 0, kind |-> "none"]
    /\ data = NoBody
    /\ ip = Undefined
    /\ visitorInfo = Null
    /\ geoRequests = <<>>
    /\ geoOutcome = "none"
    /\ geoInfo = EmptyObj
    /\ assembled = Null
    /\ posted = <<>>
    /\ saveOutcome = "none"
    /\ result = Pending
    /\ raised = {}
    /\ visitorData = Null
    /\ ipCollected = FALSE
    /\ ShellInit
    /\ SUPABASE_URL \in EnvSettings
    /\ SUPABASE_ANON_KEY \in EnvSettings

DemoNext ==
    \/ DemoMount
    \/ DemoIpResponse
    \/ DemoIpNetworkError
    \/ DemoIpBody
    \/ DemoGeoResponse
    \/ DemoGeoNetworkError
    \/ DemoGeoBody
    \/ DemoInsertReturns

SpecDemo == DemoInit /\ [][DemoNext]_vars

----------------------------------------------------------------------------
(* The Shell with both of its effects.                                     *)
(*   SpecShell  the logVisitor-based App over the demo-mode revision: the  *)
(*              collection task and the animation, interleaved             *)
(*   SpecAnim   the animation of the second App alone, from mount to       *)
(*              unmount, the collection task being left at its first await *)

\* An interval tick that changes something: Math.random() is not 0 for ever.
IntervalAdvances(sh) ==
    /\ IntervalTick(sh)
    /\ <<progress, animTimers>>' # <<progress, animTimers>>

\* The view of the logVisitor-based App mounts: its two effects run, in order.
ShellMount == DemoCollectEffect /\ AnimationEffect

ShellNext ==
    \/ ShellMount
    \/ DemoIpResponse
    \/ DemoIpNetworkError
    \/ DemoIpBody
    \/ DemoGeoResponse
    \/ DemoGeoNetworkError
    \/ DemoGeoBody
    \/ DemoInsertReturns
    \/ StartProgressFires
    \/ IntervalTick(LogVisitorShell)
    \/ HideLoadingFires(LogVisitorShell)
    \/ ShowMessageFires(LogVisitorShell)

\* Effects run once the view is rendered, and an armed timer fires.
ShellFairness ==
    /\ WF_vars(ShellMount)
    /\ WF_vars(StartProgressFires)
    /\ WF_vars(IntervalAdvances(LogVisitorShell))
    /\ WF_vars(HideLoadingFires(LogVisitorShell))
    /\ WF_vars(ShowMessageFires(LogVisitorShell))

SpecShell == DemoInit /\ [][ShellNext]_vars /\ ShellFairness

\* The view of the second App mounts: its two effects run, in order.
AppMount == CollectEffect /\ AnimationEffect

AnimNext ==
    \/ AppMount
    \/ StartProgressFires
    \/ IntervalTick(RestShell)
    \/ HideLoadingFires(RestShell)
    \/ ShowMessageFires(RestShell)
    \/ Unmount

SpecAnim == Init /\ [][AnimNext]_vars

----------------------------------------------------------------------------
(* Properties.                                                             *)

\* A dotted quad: exactly three dots, every other character a decimal digit,
\* and a digit before and after each dot (four non-empty groups).
IsDottedQuad(str) ==
    LET dots == {i \in 1..Len(str) : str[i] = "."} IN
    /\ Cardinality(dots) = 3
    /\ \A i \in 1..Len(str) : i \notin dots => str[i] \in Digit
    /\ \A i \in dots : i > 1 /\ i < Len(str) /\ i + 1 \notin dots

IsAddress(v) == v.t = "string" /\ IsDottedQuad(v.s)

IpFailures == {"timeout", "status", "network", "unparseable", "nofield", "invalid"}
GeoFailures == {"timeout", "status", "network", "unparseable"}

\* C1: whatever the endpoints do, getVisitorIP returns null or a dotted-quad
\* string -- never a malformed string -- and never rejects to its caller.
C1_AddressWellFormed ==
    /\ "getVisitorIP" \notin raised
    /\ ip # Undefined => (ip = JNull \/ IsAddress(ip))

\* An address was returned by the third endpoint after two others failed.
C1_Witness == IsAddress(ip) /\ outcome = [svc |-> 3, kind |-> "valid"] /\ pc = "done"

\* C2 as stated: geo lookups are issued only after getVisitorIP returned an
\* address and are keyed by it; when every endpoint failed no geo request is
\* issued and the assembled record has no address, country or city field.
C2_AddressFieldAbsent ==
    /\ \A k \in 1..Len(geoRequests) : IsAddress(ip) /\ geoRequests[k] = ip
    /\ ip = JNull => geoRequests = <<>>
    /\ (ip = JNull /\ ~assembled.isNull) =>
        /\ assembled.o["ip_address"] = Absent
        /\ assembled.o["country"] = Absent
        /\ assembled.o["city"] = Absent

\* C2 amended: as above, except that when every endpoint failed the record's
\* address field holds the sentinel 'Unable to detect' (no resolved address).
C2_GeoOnlyAfterAddress ==
    /\ \A k \in 1..Len(geoRequests) : IsAddress(ip) /\ geoRequests[k] = ip
    /\ ip = JNull => geoRequests = <<>>
    /\ (ip = JNull /\ ~assembled.isNull) =>
        /\ assembled.o["ip_address"] = UnableToDetect
        /\ ~IsAddress(assembled.o["ip_address"])
        /\ assembled.o["country"] = Absent
        /\ assembled.o["city"] = Absent

\* Every endpoint failed, and the record was assembled and delivered.
C2_Witness ==
    /\ pc = "done" /\ ip = JNull /\ ~assembled.isNull
    /\ Len(contacted) = Len(services) /\ visitorData = assembled

\* The fields getVisitorInfo collects.
InfoFields == {"session_id", "user_agent", "referrer", "screen_resolution", "timezone"}

\* C3: when the storage POST fails (non-2xx or transport error),
\* collectVisitorData still resolves with the record -- every collected field
\* intact, as handed to the sink -- together with the persistence error, and
\* the Shell holds that record.
C3_RecordSurvivesSaveFailure ==
    (pc = "done" /\ saveOutcome \in {"status", "network"}) =>
        /\ result.state = "resolved"
        /\ result.error # NoError
        /\ ~result.data.isNull
        /\ \A k \in InfoFields :
            visitorInfo.o[k] # Absent /\ result.data.o[k] = visitorInfo.o[k]
        /\ IsAddress(ip) => result.data.o["ip_address"] = ip
        /\ result.data.o["country"] = geoInfo["country"]
        /\ result.data.o["city"] = geoInfo["city"]
        /\ result.data.o["timestamp"] \in Instants
        /\ posted = <<result.data.o>>
        /\ visitorData = result.data

\* The POST was answered non-2xx after address and locality were collected.
C3_Witness ==
    /\ pc = "done" /\ saveOutcome = "status"
    /\ IsAddress(ip) /\ geoInfo["country"] = France /\ geoInfo["city"] = Paris
    /\ visitorData.o["ip_address"] = ip /\ visitorData.o["city"] = Paris

\* C4: collectVisitorData never rejects; it always resolves with a record
\* holding a session id, an address field and a timestamp.
C4_NeverRejects ==
    /\ "collectVisitorData" \notin raised
    /\ result.state # "rejected"
    /\ pc = "done" =>
        /\ ~result.data.isNull
        /\ \A k \in {"session_id", "ip_address", "timestamp"} : result.data.o[k] # Absent

\* C5: the endpoints are contacted in list order, each at most once; after a
\* valid address nothing further is contacted; null is returned only after
\* every endpoint was tried.
C5_OrderedOnceStopAtFirst ==
    /\ Len(contacted) <= Len(services)
    /\ \A k \in 1..Len(contacted) : contacted[k] = k
    /\ IsAddress(ip) => outcome = [svc |-> Len(contacted), kind |-> "valid"]
    /\ ip = JNull => Len(contacted) = Len(services)

\* The second endpoint answered with a valid address: the third and fourth
\* were never contacted, up to the end of the pipeline.
C5_Witness == pc = "done" /\ IsAddress(ip) /\ contacted = <<1, 2>>

\* C6: when the attempt on an endpoint that is not the last fails -- by
\* timeout, non-2xx status, network error or malformed body -- the resolution
\* has not ended: the next endpoint of the list is the one being tried.
C6_FailureMovesOn ==
    (outcome.kind \in IpFailures /\ outcome.svc < Len(services)) =>
        /\ ip = Undefined
        /\ pc \in {"ip_fetch", "ip_json"}
        /\ svc = outcome.svc + 1
        /\ contacted[Len(contacted)] = svc

\* The third endpoint timed out and the fourth is being fetched.
C6_Witness ==
    /\ outcome = [svc |-> 3, kind |-> "timeout"]
    /\ pc = "ip_fetch" /\ svc = 4 /\ IpTimer(4) \in timers

\* C7: while a lookup is in flight -- response or body still awaited -- the
\* timer of its 5-second deadline is armed.
C7_DeadlineArmedWhileInFlight ==
    /\ pc \in {"ip_fetch", "ip_json"} => IpTimer(svc) \in timers
    /\ pc \in {"geo_fetch", "geo_json"} => GeoTimer \in timers

\* The address a candidate value stands for: the dotted quad that is the whole
\* string, or is followed in it by ':' and a port; null when there is none or
\* the candidate is no string.
QuadsOf(str) ==
    {k \in 0..Len(str) :
        /\ (k = Len(str) \/ str[k + 1] = ":")
        /\ IsDottedQuad(SubSeq(str, 1, k))}
AddressOf(c) ==
    IF c.t = "string" /\ QuadsOf(c.s) # {}
    THEN Str(SubSeq(c.s, 1, CHOOSE k \in QuadsOf(c.s) : TRUE))
    ELSE JNull

KeyIndexes == 1..Len(Keys)
FirstOf(idx, d) ==
    IF idx = {} THEN Undefined
    ELSE d.f[Keys[CHOOSE i \in idx : \A j \in idx : i <= j]]

\* The value under the first known key that is present in the body.
FirstPresent(d) == FirstOf({i \in KeyIndexes : d.f[Keys[i]] # Undefined}, d)

\* The value under the first known key whose value is truthy (not "", 0, null).
FirstTruthy(d) == FirstOf({i \in KeyIndexes : Truthy(d.f[Keys[i]])}, d)

ExampleBody == Obj([NoFields EXCEPT !["ip"] = Str(Quad2 \o <<":", "4", "4", "3">>)])

\* C8 as stated: the candidate is the value of the first known key present in
\* the body; its ':port' is stripped and it is accepted only as a dotted quad.
C8_FirstPresentField ==
    pc = "norm_done" =>
        ip = (IF data.kind = "object" THEN AddressOf(FirstPresent(data)) ELSE JNull)

\* C8 amended: the candidate is the value of the first known key whose value
\* is truthy; the rest as stated, { "ip": "203.0.113.5:443" } giving
\* "203.0.113.5".
C8_FirstTruthyField ==
    pc = "norm_done" =>
        /\ ip = (IF data.kind = "object" THEN AddressOf(FirstTruthy(data)) ELSE JNull)
        /\ ip # JNull => IsAddress(ip)
        /\ data = ExampleBody => ip = Str(Quad2)

\* The example body was normalised to "203.0.113.5".
C8_Witness == pc = "norm_done" /\ data = ExampleBody /\ ip = Str(Quad2)

\* C9: getGeoLocation issues one lookup at most, never rejects, and on a
\* timeout, non-2xx status, network error or unparseable body returns {} to
\* collectVisitorData, which goes on to assemble the record without locality.
C9_GeoFailureIsEmpty ==
    /\ "getGeoLocation" \notin raised
    /\ Len(geoRequests) <= 1
    /\ geoOutcome \in GeoFailures =>
        /\ geoInfo = EmptyObj
        /\ ~assembled.isNull
        /\ assembled.o["country"] = Absent /\ assembled.o["city"] = Absent
        /\ assembled.o["ip_address"] = ip
        /\ Len(geoRequests) = 1

\* The geo lookup timed out and the pipeline ran to its end with the address.
C9_Witness ==
    /\ pc = "done" /\ geoOutcome = "timeout" /\ IsAddress(ip)
    /\ visitorData.o["ip_address"] = ip /\ visitorData.o["country"] = Absent

\* The storage URL or the API key is absent.
Unconfigured == SUPABASE_URL = Undefined \/ SUPABASE_ANON_KEY = Undefined

\* C10: with the storage URL or the API key absent, the page does not fail
\* and no call to the storage endpoint is ever issued; once the record is
\* handed to the sink, "not configured" is reported and the pipeline ends with
\* the record in the Shell's hands.
C10_UnconfiguredDoesNotFail ==
    Unconfigured =>
        /\ pc # "load_failed"
        /\ posted = <<>>
        /\ ~assembled.isNull =>
            /\ pc = "done"
            /\ saveOutcome = "not_configured"
            /\ result.error = NotConfigured
            /\ visitorData = assembled

\* The REST sink, unconfigured, ended the pipeline without a POST.
UnconfiguredSinkReached ==
    Unconfigured /\ pc = "done" /\ saveOutcome = "not_configured" /\ ~assembled.isNull


\* C11 (as claimed): every record the pipeline returns to the Shell, on every
\* path, has session_id and timestamp populated.
C11_IdAndTimePopulated ==
    ~result.data.isNull =>
        /\ Truthy(result.data.o["session_id"])
        /\ Truthy(result.data.o["timestamp"])

\* C12: the record handed to the sink is the record that was assembled, and
\* once collectVisitorData has returned the Shell holds that same record, field
\* for field, whether the save succeeded or failed.
C12_ShellHoldsRecordHandedToSink ==
    ~assembled.isNull =>
        /\ \A i \in 1..Len(posted) : posted[i] = assembled.o
        /\ pc = "done" => /\ visitorData = assembled
                          /\ result.data = assembled

\* The storage POST was sent, failed, and the Shell has its record.
C12_Witness ==
    /\ pc = "done"
    /\ Len(posted) = 1
    /\ saveOutcome \in {"status", "network"}
    /\ visitorData = Some(posted[1])

\* C13: along every execution started at view mount, at most one storage POST
\* is issued, the record is assembled once, collectVisitorData settles once,
\* and the Shell's record, once set, never changes.
C13_AssembledAndHandedOverOnce ==
    [][/\ Len(posted') <= 1
       /\ ~assembled.isNull => assembled' = assembled
       /\ result # Pending => result' = result
       /\ ~visitorData.isNull => visitorData' = visitorData]_vars

\* The record was assembled, POSTed and stored, and delivered to the Shell.
C13_Witness ==
    /\ pc = "done"
    /\ saveOutcome = "ok"
    /\ posted = <<assembled.o>>
    /\ visitorData = result.data
    /\ ~visitorData.isNull

\* The session_id of a nullable record (undefined when there is none).
SessionOf(rec) == IF rec.isNull THEN Undefined ELSE rec.o["session_id"]

\* C14 (as claimed): the session id generated for the page load is the one in
\* the record handed to the sink and in the record returned to the Shell, and
\* every rendering of the final screen shows one and the same session id.
C14_SessionIdStable ==
    [][/\ ~visitorInfo'.isNull /\ ~assembled'.isNull
            => SessionOf(assembled') = SessionOf(visitorInfo')
       /\ ~assembled'.isNull /\ ~visitorData'.isNull
            => SessionOf(visitorData') = SessionOf(assembled')
       /\ sessionShown \in SessionIds /\ sessionShown' \in SessionIds
            => sessionShown' = sessionShown]_vars

\* What the animation reads and writes.
animation == <<progress, loading, showFinalMessage, animTimers>>

\* C15: both tasks start at mount and neither waits on the other: the
\* animation reaches the final message in every interleaving, whether or not
\* the collection ever completes; no step of the collection changes progress,
\* loading, showFinalMessage or an animation timer; no step of the animation
\* changes the visitor record or anything else of the collection.
C15_TasksIndependent ==
    /\ <>showFinalMessage
    /\ [][/\ EffectsPending => (collection' # collection /\ animation' # animation)
          /\ ~EffectsPending /\ collection' # collection => animation' = animation
          /\ ~EffectsPending /\ animation' # animation => collection' = collection]_vars

\* The final message is on the screen and the collection is still waiting
\* for an IP endpoint.
C15_Witness ==
    /\ showFinalMessage
    /\ pc = "demo_ip_fetch"
    /\ visitorData.isNull

\* C16 (as claimed): in the logVisitor-based Shell, whenever logVisitor has
\* collected the visitor info and the storage insert returns an error, the
\* Shell ends with visitorData set to the collected record and ipCollected true.
C16_DataSetWhenLoggingFailed ==
    (pc = "done" /\ ~assembled.isNull /\ saveOutcome = "status") =>
        /\ visitorData = assembled
        /\ ipCollected

\* C17 (as claimed): provided only that armed timers fire, collectVisitorData
\* eventually settles and the App effect has run to its end.
C17_ReturnsOnTimersAlone == <>(pc = "done")

\* The tick that found prev >= 100 has happened: the interval was cleared.
IntervalCleared ==
    \/ "hideLoading" \in animTimers
    \/ "showMessage" \in animTimers
    \/ ~loading
    \/ showFinalMessage

\* C18: loading becomes false only after an interval tick has observed
\* progress >= 100 (the tick that sets progress to 100, clears the interval and
\* arms the 1000 ms timer); showFinalMessage becomes true only after loading
\* has become false; neither transition is undone or repeated; and after the
\* tick that cleared the interval there is no further tick: the interval is
\* never armed again and progress never changes again.
C18_AnimationOrdering ==
    [][/\ "hideLoading" \in animTimers' /\ "hideLoading" \notin animTimers
            => progress >= Full /\ "interval" \in animTimers /\ "interval" \notin animTimers'
       /\ loading' # loading
            => /\ loading /\ ~loading'
               /\ progress = Full
               /\ "hideLoading" \in animTimers /\ "hideLoading" \notin animTimers'
       /\ showFinalMessage' # showFinalMessage
            => /\ ~showFinalMessage /\ showFinalMessage'
               /\ ~loading
               /\ "showMessage" \in animTimers /\ "showMessage" \notin animTimers'
       /\ IntervalCleared
            => "interval" \notin animTimers' /\ progress' = progress]_vars

\* The animation has run to its end on a mounted view.
C18_Witness ==
    /\ mounted
    /\ showFinalMessage
    /\ ~loading
    /\ progress = Full
    /\ animTimers = {}

\* C19 (as claimed): in every reachable state the progress value the loading
\* screen renders, percentage text and bar width alike, lies between 0 and 100.
C19_RenderedProgressWithinBounds ==
    loading =>
        /\ 0 <= LoadingScreen.percent /\ LoadingScreen.percent <= 100
        /\ 0 <= LoadingScreen.width /\ LoadingScreen.width <= Full

\* C20 (as claimed): once the view is unmounted, at whatever point of the
\* animation, no animation timer remains armed and progress, loading and
\* showFinalMessage are not updated any more.
C20_NothingLeftAfterUnmount ==
    [][~mounted' =>
          /\ animTimers' = {}
          /\ ~mounted => UNCHANGED <<progress, loading, showFinalMessage>>]_vars

\* The 'YOUR IP ADDRESS' panel of the final view: rendered once the loading
\* screen is gone, under `visitorData?.ip_address &&`.
IpPanelShown ==
    /\ ~loading
    /\ ~visitorData.isNull
    /\ Truthy(visitorData.o["ip_address"])

\* C21 (as claimed): whenever ipCollected is true, and whenever the
\* 'YOUR IP ADDRESS' panel is shown, the record the Shell holds contains a
\* resolved dotted-quad address -- not null, not a failure sentinel such as
\* 'Unable to detect' or 'Collection failed'.
C21_CollectedMeansResolvedAddress ==
    (ipCollected \/ IpPanelShown) =>
        /\ ~visitorData.isNull
        /\ IsAddress(visitorData.o["ip_address"])

====
